---- MODULE Spec2Model ----
(***************************************************************************)
(* The session-scoped review ledger of hunk-review: ReviewStore            *)
(* (src/src/storage/ReviewStore.ts), its snapshot file and the callers'    *)
(* use of it.                                                              *)
(*                                                                         *)
(* Timestamps (firstSeenAt, lastReviewedAt, lastUpdated) are written by    *)
(* the code but never read by any branch of it; they are left out of the   *)
(* state.  repoName / branchName are stored verbatim beside sessionId and  *)
(* are left out for the same reason.                                       *)
(***************************************************************************)
EXTENDS Integers, Sequences, FiniteSets, TLC

\* ------------------------------------------------------------------ inputs
\* The fingerprints and session ids the callers pass in, in a fixed order
\* used wherever the model has to enumerate the keys of an object.
HashSeq == <<"h1", "h2">>
SessionSeq == <<"A", "B">>

Range(s) == {s[i] : i \in 1..Len(s)}

Hashes == Range(HashSeq)
SessionIds == Range(SessionSeq)

\* The optional `context` argument of markHunkReviewed: the callers pass the
\* hunk's header (tui.ts) or nothing (tests); it is stored and never read.
Undefined == "undefined"
ContextOf(hash) == IF hash = HashSeq[1] THEN "@@ -1 +1 @@" ELSE Undefined

\* currentSessionId: string | null
Null == "null"

\* reviewCount is unbounded in the code; mark is not taken beyond this.
MaxReviewCount == 2

\* No more than this many writeFile calls are in flight at once.
MaxInFlight == 2

\* The keys of a run are unbounded in the code; the TUI accepts no more
\* than this many Space and u keys.
MaxKeys == 4

VARIABLES
    data,              \* ReviewStore.data (ReviewData)
    currentSessionId,  \* ReviewStore.currentSessionId
    file,              \* the storage file <storageDir>/reviewed.json
    writes,            \* the calls awaiting their save: content and phase of the
                       \* writeFile each and, in the TUI, the key and its hunk
    alive,             \* the process has not exited
    writable,          \* the storage file can be written (no ENOSPC / EACCES)
    allHunks,          \* TUIController.allHunks: the hunks of the view, in order
    currentHunkIndex,  \* TUIController.currentHunkIndex (from 0)
    markedInRuns,      \* history: hashes the TUI showed as reviewed in earlier runs
    tuiDiff,           \* TUIController.diff: its reviewedHunks / unreviewedHunks counters
    tuiStart,          \* history: allHunks and the counters as the TUI was constructed
    keyCount,          \* history: the Space and u keys the TUI has accepted
    chunkPair,         \* two hunks (parse-diff Chunks) handed to the hasher
    hashPair,          \* what hashHunk returned for them (<<>> before the calls)
    parsedFiles,       \* the parse-diff Files handed to DiffProcessor.process
    processedDiff,     \* the ProcessedDiff process returned
    filteredDiff,      \* the ProcessedDiff filterUnreviewed returned
    lastOp,            \* history: the last call, its argument and report
    markedUnder        \* history: <<session, hash>> of every mark made with a session
                       \* active since the ledger was last empty

vars == <<data, currentSessionId, file, writes, alive, writable,
          allHunks, currentHunkIndex, markedInRuns, tuiDiff, tuiStart, keyCount,
          chunkPair, hashPair,
          parsedFiles, processedDiff, filteredDiff, lastOp, markedUnder>>

\* What the awaited calls leave alone: the writes in flight and the process
\* (touched by the un-awaited calls of the TUI), the state of the disk, the
\* TUI's own fields and the inputs and results of the hasher and of the
\* diff processor.
tuiVars == <<allHunks, currentHunkIndex, markedInRuns, tuiDiff, tuiStart, keyCount>>

hashVars == <<chunkPair, hashPair>>

viewVars == <<parsedFiles, processedDiff, filteredDiff>>

ioVars == <<writes, alive, writable, tuiVars, hashVars, viewVars>>

\* ------------------------------------------------------------ JS helpers
EmptyObject == [k \in {} |-> 0]

Includes(arr, x) == \E i \in 1..Len(arr) : arr[i] = x

Push(arr, x) == Append(arr, x)

Without(arr, x) == SelectSeq(arr, LAMBDA y : y # x)

Has(obj, k) == k \in DOMAIN obj

Put(obj, k, v) == [x \in DOMAIN obj \cup {k} |-> IF x = k THEN v ELSE obj[x]]

Delete(obj, k) == [x \in DOMAIN obj \ {k} |-> obj[x]]

Max(a, b) == IF a >= b THEN a ELSE b

\* Object.keys over a map keyed by hashes / session ids, in the fixed order.
KeysIn(order, obj) == SelectSeq(order, LAMBDA k : k \in DOMAIN obj)

\* ---------------------------------------------------------------- schema
createEmptyReviewData ==
    [version |-> "1.0.0",
     reviewedHunks |-> EmptyObject,
     sessions |-> EmptyObject,
     statistics |-> [totalReviewedHunks |-> 0]]

\* The ProcessedDiff of a diff without files (and the value of the view
\* variables before the processor has run).
NoDiff == [files |-> <<>>, totalHunks |-> 0, reviewedHunks |-> 0, unreviewedHunks |-> 0]

\* The counters of the TUI's diff, and the TUI's start, before a TUI exists.
NoCounts == [reviewedHunks |-> 0, unreviewedHunks |-> 0]

NoStart == [hunks |-> <<>>, reviewedHunks |-> 0, unreviewedHunks |-> 0]

\* -------------------------------------------------------- ReviewStore: queries
hasReviewedInSession(d, hash, sessionId) ==
    IF Has(d.sessions, sessionId)
    THEN Includes(d.sessions[sessionId].reviewedHashes, hash)
    ELSE FALSE

\* Mutant: the check is global even with a session active.
hasReviewedHunkGlobal(d, cur, hash) == Has(d.reviewedHunks, hash)

\* Mutant: without a session nothing counts as reviewed.
hasReviewedHunkSessionOnly(d, cur, hash) ==
    cur # Null /\ hasReviewedInSession(d, hash, cur)

hasReviewedHunk(d, cur, hash) ==
    IF cur # Null
    THEN hasReviewedInSession(d, hash, cur)
    ELSE Has(d.reviewedHunks, hash)

getStats(d) == [totalReviewedHunks |-> d.statistics.totalReviewedHunks]

\* ------------------------------------------------- ReviewStore: in-memory effects
\* Mutant: setSession starts the session's entry afresh every time.
setSessionDataOverwrites(d, sessionId) ==
    [d EXCEPT !.sessions =
        Put(@, sessionId, [sessionId |-> sessionId, reviewedHashes |-> <<>>])]

\* setSession: the session entry is created only if absent.
setSessionData(d, sessionId) ==
    IF Has(d.sessions, sessionId)
    THEN d
    ELSE [d EXCEPT !.sessions =
            Put(@, sessionId, [sessionId |-> sessionId, reviewedHashes |-> <<>>])]

\* Mutant: the counter is bumped on every mark, not only on a new record.
markRecordCountsAgain(d, cur, hash, context) ==
    IF Has(d.reviewedHunks, hash)
    THEN [d EXCEPT !.reviewedHunks[hash].reviewCount = @ + 1,
                   !.statistics.totalReviewedHunks = @ + 1]
    ELSE [d EXCEPT
            !.reviewedHunks = Put(@, hash,
                [reviewCount |-> 1,
                 context |-> context,
                 sessions |-> IF cur # Null THEN <<cur>> ELSE <<>>]),
            !.statistics.totalReviewedHunks = @ + 1]

\* Mutant: a new record never gets the active session.
markRecordForgetsSession(d, cur, hash, context) ==
    IF Has(d.reviewedHunks, hash)
    THEN LET old == d.reviewedHunks[hash]
             bumped == [old EXCEPT !.reviewCount = @ + 1]
         IN  [d EXCEPT !.reviewedHunks[hash] =
                IF cur # Null /\ ~Includes(old.sessions, cur)
                THEN [bumped EXCEPT !.sessions = Push(@, cur)]
                ELSE bumped]
    ELSE [d EXCEPT
            !.reviewedHunks = Put(@, hash,
                [reviewCount |-> 1, context |-> context, sessions |-> <<>>]),
            !.statistics.totalReviewedHunks = @ + 1]

\* Mutant: a later mark pushes the active session without the includes test.
markRecordDuplicatesSession(d, cur, hash, context) ==
    IF Has(d.reviewedHunks, hash)
    THEN [d EXCEPT !.reviewedHunks[hash] =
            [reviewCount |-> @.reviewCount + 1,
             context |-> @.context,
             sessions |-> IF cur # Null THEN Push(@.sessions, cur) ELSE @.sessions]]
    ELSE [d EXCEPT
            !.reviewedHunks = Put(@, hash,
                [reviewCount |-> 1,
                 context |-> context,
                 sessions |-> IF cur # Null THEN <<cur>> ELSE <<>>]),
            !.statistics.totalReviewedHunks = @ + 1]

\* markHunkReviewed, lines 112-131: the global record.
markRecord(d, cur, hash, context) ==
    IF Has(d.reviewedHunks, hash)
    THEN LET old == d.reviewedHunks[hash]
             bumped == [old EXCEPT !.reviewCount = @ + 1]
         IN  [d EXCEPT !.reviewedHunks[hash] =
                IF cur # Null /\ ~Includes(old.sessions, cur)
                THEN [bumped EXCEPT !.sessions = Push(@, cur)]
                ELSE bumped]
    ELSE [d EXCEPT
            !.reviewedHunks = Put(@, hash,
                [reviewCount |-> 1,
                 context |-> context,
                 sessions |-> IF cur # Null THEN <<cur>> ELSE <<>>]),
            !.statistics.totalReviewedHunks = @ + 1]

\* Mutant: the session's list is pushed to without the includes() test.
markSessionPushesAgain(d, cur, hash) ==
    IF cur # Null /\ Has(d.sessions, cur)
    THEN [d EXCEPT !.sessions[cur].reviewedHashes = Push(@, hash)]
    ELSE d

\* markHunkReviewed, lines 134-140: the session's own list.
markSession(d, cur, hash) ==
    IF cur # Null /\ Has(d.sessions, cur)
          /\ ~Includes(d.sessions[cur].reviewedHashes, hash)
    THEN [d EXCEPT !.sessions[cur].reviewedHashes = Push(@, hash)]
    ELSE d

markedData(d, cur, hash, context) ==
    markSession(markRecord(d, cur, hash, context), cur, hash)

\* unmarkHunk, lines 149-154 (the caller guards on the record's presence).
unmarkedData(d, hash) ==
    [d EXCEPT
        !.reviewedHunks = Delete(@, hash),
        !.statistics.totalReviewedHunks = Max(0, @ - 1)]

\* Mutant: without a session the call falls back to clearing everything.
resetSessionDataFallsBack(d, cur) ==
    IF cur = Null
    THEN createEmptyReviewData
    ELSE [d EXCEPT !.sessions = Delete(@, cur)]

\* resetSession(): called by main() and the tests; its effect is taken from
\* the ledger design (4.2, resetSession) and RESET_SESSION.md "Reset Logic".
resetSessionData(d, cur) ==
    IF cur = Null
    THEN d
    ELSE LET mine == IF Has(d.sessions, cur)
                     THEN Range(d.sessions[cur].reviewedHashes)
                     ELSE {}
             touched == mine \cap DOMAIN d.reviewedHunks
             emptied == {h \in touched :
                            Without(d.reviewedHunks[h].sessions, cur) = <<>>}
         IN  [d EXCEPT
                !.reviewedHunks =
                    [h \in DOMAIN d.reviewedHunks \ emptied |->
                        IF h \in touched
                        THEN [d.reviewedHunks[h] EXCEPT !.sessions = Without(@, cur)]
                        ELSE d.reviewedHunks[h]],
                !.sessions = Delete(@, cur),
                !.statistics.totalReviewedHunks = Max(0, @ - Cardinality(emptied))]

resetSessionReport(cur) ==
    IF cur = Null THEN "no session detected" ELSE "ok"

\* ------------------------------------------------------------------ JSON
\* A JSON object is the sequence of its members <<key, value>>; a member whose
\* value is undefined is not written (JSON.stringify), and reading a member
\* that is absent yields undefined (property access on the parsed object).
HasMember(ms, k) == \E i \in 1..Len(ms) : ms[i][1] = k

Member(ms, k) == ms[CHOOSE i \in 1..Len(ms) : ms[i][1] = k][2]

stringifyMetadata(m) ==
    <<  <<"reviewCount", m.reviewCount>>  >>
    \o (IF m.context = Undefined THEN <<>> ELSE <<  <<"context", m.context>>  >>)
    \o (IF "sessions" \in DOMAIN m THEN <<  <<"sessions", m.sessions>>  >> ELSE <<>>)

stringifySession(s) ==
    <<  <<"sessionId", s.sessionId>>, <<"reviewedHashes", s.reviewedHashes>>  >>

stringifyHunks(obj) ==
    LET ks == KeysIn(HashSeq, obj)
    IN  [i \in 1..Len(ks) |-> <<ks[i], stringifyMetadata(obj[ks[i]])>>]

stringifySessions(obj) ==
    LET ks == KeysIn(SessionSeq, obj)
    IN  [i \in 1..Len(ks) |-> <<ks[i], stringifySession(obj[ks[i]])>>]

\* JSON.stringify(this.data, null, 2)
stringify(d) ==
    <<  <<"version", d.version>>,
        <<"reviewedHunks", stringifyHunks(d.reviewedHunks)>>,
        <<"sessions", stringifySessions(d.sessions)>>,
        <<"statistics", d.statistics.totalReviewedHunks>>  >>

\* A record written before session tracking has no `sessions` member, and
\* the parsed object then has no such property.
parseMetadata(ms) ==
    LET context == IF HasMember(ms, "context") THEN Member(ms, "context") ELSE Undefined
    IN  IF HasMember(ms, "sessions")
        THEN [reviewCount |-> Member(ms, "reviewCount"),
              context |-> context,
              sessions |-> Member(ms, "sessions")]
        ELSE [reviewCount |-> Member(ms, "reviewCount"),
              context |-> context]

parseSession(ms) ==
    [sessionId |-> Member(ms, "sessionId"),
     reviewedHashes |-> Member(ms, "reviewedHashes")]

Keys(ms) == {ms[i][1] : i \in 1..Len(ms)}

parseHunks(ms) == [k \in Keys(ms) |-> parseMetadata(Member(ms, k))]

parseSessions(ms) == [k \in Keys(ms) |-> parseSession(Member(ms, k))]

\* JSON.parse(content), followed by load()'s default for a missing `sessions`.
parse(text) ==
    [version |-> Member(text, "version"),
     reviewedHunks |-> parseHunks(Member(text, "reviewedHunks")),
     sessions |-> IF HasMember(text, "sessions")
                  THEN parseSessions(Member(text, "sessions"))
                  ELSE EmptyObject,
     statistics |-> [totalReviewedHunks |-> Member(text, "statistics")]]

\* ------------------------------------------------------------- the file
NoFile == [kind |-> "absent"]

Truncated == [kind |-> "partial"]

Written(text) == [kind |-> "text", content |-> text]

\* A file that exists and cannot be read (readFile rejects).
Unreadable == [kind |-> "unreadable"]

\* Mutant: the parsed snapshot is never assigned to this.data.
loadedDataNeverAssigned(d, f) == d

\* load(): an absent file, a parse failure and an unknown version all leave
\* this.data as it is.
loadedData(d, f) ==
    IF f.kind = "absent" THEN d
    ELSE IF f.kind \in {"partial", "unreadable"} THEN d
    ELSE IF Member(f.content, "version") # "1.0.0" THEN d
    ELSE parse(f.content)

\* save(): the content handed to writeFile, and the file once writeFile is done.
savedFile(d) == Written(stringify(d))

\* Mutant: the catch block logs the error and does not rethrow it.
saveResultSwallowed(w) == "ok"

\* save(), lines 71-81: what the awaited call settles with.
saveResult(w) == IF w THEN "ok" ELSE "error"

\* The file after save(): written, or after a failed writeFile untouched
\* (the open failed) or truncated (the open succeeded and the write failed).
fileAfterSave(f, d, w) == IF w THEN {savedFile(d)} ELSE {f, Truncated}

\* markHunkReviewed, line 118: with a session active, `.sessions.includes` is
\* called on the existing record's sessions, which a legacy record lacks.
markThrows(d, cur, hash) ==
    /\ Has(d.reviewedHunks, hash)
    /\ cur # Null
    /\ "sessions" \notin DOMAIN d.reviewedHunks[hash]

\* Lines 114-115 have run when line 118 throws.
markedBeforeThrow(d, hash) ==
    [d EXCEPT !.reviewedHunks[hash].reviewCount = @ + 1]

\* --------------------------------------------------------------- history
NoHash == "-"

Done(op, hash, out) ==
    lastOp' = [op |-> op, hash |-> hash, out |-> out, fresh |-> lastOp.op = "new"]

\* ------------------------------------------------ ReviewStore: the awaited calls
\* Each action is one call of the public API run to completion by a caller
\* that awaits it, its trailing save() included.

\* new ReviewStore(storageDir, sessionId)
Construct(sessionId) ==
    /\ data' = createEmptyReviewData
    /\ currentSessionId' = sessionId
    /\ Done("new", NoHash, "ok")
    /\ UNCHANGED ioVars
    /\ UNCHANGED <<file, markedUnder>>

Load ==
    /\ data' = loadedData(data, file)
    /\ Done("load", NoHash, "ok")
    /\ UNCHANGED ioVars
    /\ UNCHANGED <<currentSessionId, file, markedUnder>>

Save ==
    /\ file' \in fileAfterSave(file, data, writable)
    /\ Done("save", NoHash, saveResult(writable))
    /\ UNCHANGED ioVars
    /\ UNCHANGED <<data, currentSessionId, markedUnder>>

SetSession(sessionId) ==
    /\ currentSessionId' = sessionId
    /\ data' = setSessionData(data, sessionId)
    /\ Done("setSession", NoHash, "ok")
    /\ UNCHANGED ioVars
    /\ UNCHANGED <<file, markedUnder>>

MarkHunkReviewed(hash, context) ==
    /\ Has(data.reviewedHunks, hash) => data.reviewedHunks[hash].reviewCount < MaxReviewCount
    /\ IF markThrows(data, currentSessionId, hash)
       THEN /\ data' = markedBeforeThrow(data, hash)
            /\ Done("mark", hash, "TypeError")
            /\ UNCHANGED <<file, markedUnder>>
       ELSE /\ data' = markedData(data, currentSessionId, hash, context)
            /\ file' \in fileAfterSave(file, data', writable)
            /\ markedUnder' = IF currentSessionId # Null
                              THEN markedUnder \cup {<<currentSessionId, hash>>}
                              ELSE markedUnder
            /\ Done("mark", hash, saveResult(writable))
    /\ UNCHANGED ioVars
    /\ UNCHANGED currentSessionId

\* Mutant: unmarkHunk without its `await this.save()`.
UnmarkHunkNoSave(hash) ==
    /\ data' = IF Has(data.reviewedHunks, hash) THEN unmarkedData(data, hash) ELSE data
    /\ Done("unmark", hash, "ok")
    /\ UNCHANGED ioVars
    /\ UNCHANGED <<currentSessionId, file, markedUnder>>

\* Mutant: unmarkHunk saves whether or not it found a record.
UnmarkHunkAlwaysSaves(hash) ==
    /\ data' = IF Has(data.reviewedHunks, hash) THEN unmarkedData(data, hash) ELSE data
    /\ file' \in fileAfterSave(file, data', writable)
    /\ Done("unmark", hash, saveResult(writable))
    /\ UNCHANGED ioVars
    /\ UNCHANGED <<currentSessionId, markedUnder>>

UnmarkHunk(hash) ==
    /\ IF Has(data.reviewedHunks, hash)
       THEN /\ data' = unmarkedData(data, hash)
            /\ file' \in fileAfterSave(file, data', writable)
            /\ Done("unmark", hash, saveResult(writable))
       ELSE /\ UNCHANGED <<data, file>>
            /\ Done("unmark", hash, "ok")
    /\ UNCHANGED ioVars
    /\ UNCHANGED <<currentSessionId, markedUnder>>

\* Mutant: reset without its `await this.save()`.
ResetMemoryOnly ==
    /\ data' = createEmptyReviewData
    /\ markedUnder' = {}
    /\ Done("reset", NoHash, "ok")
    /\ UNCHANGED ioVars
    /\ UNCHANGED <<currentSessionId, file>>

Reset ==
    /\ data' = createEmptyReviewData
    /\ file' \in fileAfterSave(file, data', writable)
    /\ markedUnder' = {}
    /\ Done("reset", NoHash, saveResult(writable))
    /\ UNCHANGED ioVars
    /\ UNCHANGED currentSessionId

\* resetSession(): see resetSessionData.  Nothing is written without a session.
ResetSession ==
    /\ data' = resetSessionData(data, currentSessionId)
    /\ file' = IF currentSessionId = Null THEN file ELSE savedFile(data')
    /\ Done("resetSession", NoHash, resetSessionReport(currentSessionId))
    /\ UNCHANGED ioVars
    /\ UNCHANGED <<currentSessionId, markedUnder>>

Init ==
    /\ data = createEmptyReviewData
    /\ currentSessionId \in SessionIds \cup {Null}
    /\ file = NoFile
    /\ writes = <<>>
    /\ alive = TRUE
    /\ writable = TRUE
    /\ allHunks = <<>>
    /\ currentHunkIndex = 0
    /\ markedInRuns = {}
    /\ tuiDiff = NoCounts
    /\ tuiStart = NoStart
    /\ keyCount = 0
    /\ chunkPair = <<>>
    /\ hashPair = <<>>
    /\ parsedFiles = <<>>
    /\ processedDiff = NoDiff
    /\ filteredDiff = NoDiff
    /\ lastOp = [op |-> "new", hash |-> NoHash, out |-> "ok", fresh |-> FALSE]
    /\ markedUnder = {}

Next ==
    \/ \E s \in SessionIds \cup {Null} : Construct(s)
    \/ Load
    \/ Save
    \/ \E s \in SessionIds : SetSession(s)
    \/ \E h \in Hashes : MarkHunkReviewed(h, ContextOf(h))
    \/ \E h \in Hashes : UnmarkHunk(h)
    \/ Reset
    \/ ResetSession

Spec == Init /\ [][Next]_vars

\* One store, constructed without a session id on an empty directory, and
\* nothing but the ledger's own calls.
InitLedger ==
    /\ data = createEmptyReviewData
    /\ currentSessionId = Null
    /\ file = NoFile
    /\ writes = <<>>
    /\ alive = TRUE
    /\ writable = TRUE
    /\ allHunks = <<>>
    /\ currentHunkIndex = 0
    /\ markedInRuns = {}
    /\ tuiDiff = NoCounts
    /\ tuiStart = NoStart
    /\ keyCount = 0
    /\ chunkPair = <<>>
    /\ hashPair = <<>>
    /\ parsedFiles = <<>>
    /\ processedDiff = NoDiff
    /\ filteredDiff = NoDiff
    /\ lastOp = [op |-> "new", hash |-> NoHash, out |-> "ok", fresh |-> FALSE]
    /\ markedUnder = {}

NextLedger ==
    \/ \E s \in SessionIds : SetSession(s)
    \/ \E h \in Hashes : MarkHunkReviewed(h, ContextOf(h))
    \/ \E h \in Hashes : UnmarkHunk(h)
    \/ Reset
    \/ ResetSession

SpecLedger == InitLedger /\ [][NextLedger]_vars

\* --------------------------------------------- ReviewStore: calls not awaited
\* The TUI's key handlers (tui.ts 91-102) start markHunkReviewed / unmarkHunk
\* and return to the event loop at the first await that does I/O, which is
\* save()'s writeFile: the in-memory change and JSON.stringify happen in the
\* turn of the key event, the write itself later.  writeFile opens the file
\* with flag 'w', which truncates it, then writes the content, then closes.
Queued(d) == [content |-> stringify(d), phase |-> "queued"]

RemoveAt(seq, i) == [j \in 1..(Len(seq) - 1) |-> IF j < i THEN seq[j] ELSE seq[j + 1]]

StartMark(hash, context) ==
    /\ alive
    /\ Len(writes) < MaxInFlight
    /\ Has(data.reviewedHunks, hash) => data.reviewedHunks[hash].reviewCount < MaxReviewCount
    /\ data' = markedData(data, currentSessionId, hash, context)
    /\ writes' = Append(writes, Queued(data'))
    /\ markedUnder' = IF currentSessionId # Null
                      THEN markedUnder \cup {<<currentSessionId, hash>>}
                      ELSE markedUnder
    /\ Done("mark", hash, "ok")
    /\ UNCHANGED <<currentSessionId, file, alive, writable, tuiVars, hashVars, viewVars>>

StartUnmark(hash) ==
    /\ alive
    /\ Len(writes) < MaxInFlight
    /\ IF Has(data.reviewedHunks, hash)
       THEN /\ data' = unmarkedData(data, hash)
            /\ writes' = Append(writes, Queued(data'))
       ELSE UNCHANGED <<data, writes>>
    /\ Done("unmark", hash, "ok")
    /\ UNCHANGED <<currentSessionId, file, alive, writable, markedUnder, tuiVars, hashVars, viewVars>>

\* open(path, 'w'): O_CREAT | O_TRUNC
WriteOpen(i) ==
    /\ alive
    /\ writes[i].phase = "queued"
    /\ writes' = [writes EXCEPT ![i].phase = "open"]
    /\ file' = Truncated
    /\ UNCHANGED <<data, currentSessionId, alive, writable, lastOp, markedUnder, tuiVars, hashVars, viewVars>>

\* write(fd, content) at offset 0 and close.  Onto a file another writer has
\* filled since this one truncated it, the bytes overlay that content: the
\* result is this content or, when it is the shorter one, unparseable.
WriteData(i) ==
    /\ alive
    /\ writes[i].phase = "open"
    /\ writes' = RemoveAt(writes, i)
    /\ \/ file' = Written(writes[i].content)
       \/ file.kind = "text" /\ file' = Truncated
    /\ UNCHANGED <<data, currentSessionId, alive, writable, lastOp, markedUnder, tuiVars, hashVars, viewVars>>

\* quit(): process.exit(0), whatever is in flight.
Quit ==
    /\ alive
    /\ alive' = FALSE
    /\ writes' = <<>>
    /\ Done("quit", NoHash, "ok")
    /\ UNCHANGED <<data, currentSessionId, file, writable, markedUnder, tuiVars, hashVars, viewVars>>

\* The store as main() hands it to the TUI: constructed, loaded from a
\* directory without a snapshot, the session set when git reports one.
InitIO ==
    /\ \E s \in SessionIds \cup {Null} :
          /\ currentSessionId = s
          /\ data = IF s = Null
                    THEN createEmptyReviewData
                    ELSE setSessionData(createEmptyReviewData, s)
    /\ file = NoFile
    /\ writes = <<>>
    /\ alive = TRUE
    /\ writable = TRUE
    /\ allHunks = <<>>
    /\ currentHunkIndex = 0
    /\ markedInRuns = {}
    /\ tuiDiff = NoCounts
    /\ tuiStart = NoStart
    /\ keyCount = 0
    /\ chunkPair = <<>>
    /\ hashPair = <<>>
    /\ parsedFiles = <<>>
    /\ processedDiff = NoDiff
    /\ filteredDiff = NoDiff
    /\ lastOp = [op |-> "setSession", hash |-> NoHash, out |-> "ok", fresh |-> FALSE]
    /\ markedUnder = {}

NextIO ==
    \/ \E h \in Hashes : StartMark(h, ContextOf(h))
    \/ \E h \in Hashes : StartUnmark(h)
    \/ \E i \in 1..Len(writes) : WriteOpen(i)
    \/ \E i \in 1..Len(writes) : WriteData(i)
    \/ Quit

SpecIO == InitIO /\ [][NextIO]_vars

\* ---------------------------------------------------------------------------
\* The ledger calls on a disk that can stop accepting writes: writeFile in
\* save() rejects (ENOSPC, EACCES, ...) while `writable` is FALSE.
\* ---------------------------------------------------------------------------

DiskChange ==
    /\ writable' = ~writable
    /\ Done("disk", NoHash, "ok")
    /\ UNCHANGED <<data, currentSessionId, file, writes, alive, markedUnder, tuiVars, hashVars, viewVars>>

NextFail ==
    \/ \E h \in Hashes : MarkHunkReviewed(h, ContextOf(h))
    \/ \E h \in Hashes : UnmarkHunk(h)
    \/ Reset
    \/ DiskChange

\* The store as main() hands it to the commands: loaded from an absent file,
\* the session of the branch (if any) set.
SpecFail == InitIO /\ [][NextFail]_vars

\* ---------------------------------------------------------------------------
\* A store constructed over a storage directory another run (or another
\* version of the program) has left behind.
\* ---------------------------------------------------------------------------

\* reviews.json of the release before session tracking: no `sessions` member
\* in the file and none in its records.
LegacyText ==
    <<  <<"version", "1.0.0">>,
        <<"reviewedHunks",
          <<  <<"h1", <<  <<"reviewCount", 1>>, <<"context", ContextOf("h1")>>  >>  >>  >>  >>,
        <<"statistics", 1>>  >>

\* reviews.json of a release with another schema version.
OtherVersionText ==
    <<  <<"version", "0.9.0">>,
        <<"reviewedHunks", <<>> >>,
        <<"sessions", <<>> >>,
        <<"statistics", 0>>  >>

\* Files load() does not take data from.
BadFiles == {NoFile, Truncated, Unreadable, Written(OtherVersionText)}

ForeignFiles == BadFiles \cup {Written(LegacyText)}

InitLoad ==
    /\ data = createEmptyReviewData
    /\ currentSessionId = Null
    /\ file \in ForeignFiles
    /\ writes = <<>>
    /\ alive = TRUE
    /\ writable = TRUE
    /\ allHunks = <<>>
    /\ currentHunkIndex = 0
    /\ markedInRuns = {}
    /\ tuiDiff = NoCounts
    /\ tuiStart = NoStart
    /\ keyCount = 0
    /\ chunkPair = <<>>
    /\ hashPair = <<>>
    /\ parsedFiles = <<>>
    /\ processedDiff = NoDiff
    /\ filteredDiff = NoDiff
    /\ lastOp = [op |-> "new", hash |-> NoHash, out |-> "ok", fresh |-> FALSE]
    /\ markedUnder = {}

NextLoad ==
    \/ Load
    \/ \E s \in SessionIds : SetSession(s)
    \/ \E h \in Hashes : MarkHunkReviewed(h, ContextOf(h))
    \/ \E h \in Hashes : UnmarkHunk(h)

SpecLoad == InitLoad /\ [][NextLoad]_vars

\* ---------------------------------------------------------------------------
\* ContentHasher: the fingerprint of a hunk.  A string is a sequence of
\* characters; a complete ANSI escape sequence counts as one character.
\* ---------------------------------------------------------------------------

Esc == "ESC[31m"

\* The texts of diff lines, without the diff marker.
Texts == {<<"a">>, <<"b">>, <<Esc, "a">>}

ContextTexts == {<<"a">>, <<"b">>}

\* parse-diff: a change's content is the line of the diff, marker included.
Marker(type) == IF type = "add" THEN "+" ELSE IF type = "del" THEN "-" ELSE " "

Changes ==
    {[type |-> t, content |-> <<Marker(t)>> \o x] : t \in {"add", "del"}, x \in Texts}
        \cup {[type |-> "normal", content |-> <<Marker("normal")>> \o x] : x \in ContextTexts}

MaxChanges == 2

\* The hunks with at most MaxChanges lines, starting at one of the given
\* old line numbers.
Chunks(starts) ==
    {[oldStart |-> o, changes |-> c] :
        o \in starts, c \in UNION {[1..k -> Changes] : k \in 0..MaxChanges}}

\* new ContentHasher({ normalizeWhitespace: false })
NormalizeWhitespace == FALSE

\* strip-ansi
stripAnsi(str) == SelectSeq(str, LAMBDA c : c # Esc)

\* str.trim()
RECURSIVE trimStart(_)
trimStart(str) ==
    IF str # <<>> /\ Head(str) = " " THEN trimStart(Tail(str)) ELSE str

RECURSIVE trimEnd(_)
trimEnd(str) ==
    IF str # <<>> /\ str[Len(str)] = " "
    THEN trimEnd(SubSeq(str, 1, Len(str) - 1))
    ELSE str

\* str.replace(/\s+/g, ' ')
collapseWhitespace(str) ==
    SelectSeq([i \in 1..Len(str) |->
                  IF str[i] = " " /\ i > 1 /\ str[i - 1] = " " THEN "" ELSE str[i]],
              LAMBDA c : c # "")

normalizeLineContent(content) ==
    LET unprefixed == IF content # <<>> /\ Head(content) \in {"+", "-", " "}
                      THEN Tail(content)
                      ELSE content
        plain == stripAnsi(unprefixed)
    IN  IF NormalizeWhitespace
        THEN collapseWhitespace(trimEnd(trimStart(plain)))
        ELSE plain

\* lines.join('\n')
RECURSIVE join(_)
join(lines) ==
    IF lines = <<>> THEN <<>>
    ELSE IF Len(lines) = 1 THEN lines[1]
    ELSE lines[1] \o <<"\n">> \o join(Tail(lines))

\* Mutant: the context lines are hashed too.
normalizeHunkContentAllLines(chunk) ==
    join([i \in 1..Len(chunk.changes) |-> normalizeLineContent(chunk.changes[i].content)])

\* Mutant: only the added lines are hashed.
normalizeHunkContentAddOnly(chunk) ==
    LET changed == SelectSeq(chunk.changes, LAMBDA change : change.type = "add")
    IN  join([i \in 1..Len(changed) |-> normalizeLineContent(changed[i].content)])

normalizeHunkContent(chunk) ==
    LET changed == SelectSeq(chunk.changes,
                             LAMBDA change : change.type = "add" \/ change.type = "del")
    IN  join([i \in 1..Len(changed) |-> normalizeLineContent(changed[i].content)])

\* createHash('sha256').update(text).digest('hex'): taken as injective.
sha256(text) == <<"sha256">> \o text

hashHunk(chunk) == sha256(normalizeHunkContent(chunk))

HashHunks ==
    /\ hashPair = <<>>
    /\ hashPair' = <<hashHunk(chunkPair[1]), hashHunk(chunkPair[2])>>
    /\ Done("hashHunk", NoHash, "ok")
    /\ UNCHANGED <<data, currentSessionId, file, writes, alive, writable, tuiVars,
                   chunkPair, markedUnder, viewVars>>

InitHash ==
    /\ data = createEmptyReviewData
    /\ currentSessionId = Null
    /\ file = NoFile
    /\ writes = <<>>
    /\ alive = TRUE
    /\ writable = TRUE
    /\ allHunks = <<>>
    /\ currentHunkIndex = 0
    /\ markedInRuns = {}
    /\ tuiDiff = NoCounts
    /\ tuiStart = NoStart
    /\ keyCount = 0
    /\ chunkPair \in Chunks({1}) \X Chunks({1, 10})
    /\ hashPair = <<>>
    /\ parsedFiles = <<>>
    /\ processedDiff = NoDiff
    /\ filteredDiff = NoDiff
    /\ lastOp = [op |-> "new", hash |-> NoHash, out |-> "ok", fresh |-> FALSE]
    /\ markedUnder = {}

NextHash == HashHunks

SpecHash == InitHash /\ [][NextHash]_vars

\* ---------------------------------------------------------------------------
\* DiffProcessor: the view of a diff against the ledger.
\* ---------------------------------------------------------------------------

\* file.chunks of a parse-diff File; a file without hunks (binary file,
\* rename, mode change) has an empty list or none.
chunksOf(diffFile) ==
    IF "chunks" \in DOMAIN diffFile THEN diffFile.chunks ELSE <<>>

\* Mutant: the hasher gives every hunk the same hash.
hashOfNothing(chunk) == sha256(<<>>)

\* this.hasher.hashHunk(chunk).  A chunk written as [hash |-> h] is a chunk
\* known by its fingerprint only.
hashOf(chunk) == IF "changes" \in DOMAIN chunk THEN hashHunk(chunk) ELSE chunk.hash

\* The hunks of all files, in order.
RECURSIVE flattenHunks(_)
flattenHunks(processedFiles) ==
    IF processedFiles = <<>> THEN <<>>
    ELSE Head(processedFiles).hunks \o flattenHunks(Tail(processedFiles))

\* DiffProcessor.process
process(files, d, cur) ==
    LET processedFiles ==
            [i \in 1..Len(files) |->
                [file |-> files[i],
                 hunks |-> [j \in 1..Len(chunksOf(files[i])) |->
                              [chunk |-> files[i].chunks[j],
                               hash |-> hashOf(files[i].chunks[j]),
                               reviewed |-> hasReviewedHunk(d, cur, hashOf(files[i].chunks[j])),
                               fileIndex |-> i - 1]],
                 fileIndex |-> i - 1]]
        totalHunks == Len(flattenHunks(processedFiles))
        reviewedHunks == Len(SelectSeq(flattenHunks(processedFiles), LAMBDA h : h.reviewed))
    IN  [files |-> processedFiles,
         totalHunks |-> totalHunks,
         reviewedHunks |-> reviewedHunks,
         unreviewedHunks |-> totalHunks - reviewedHunks]

\* Mutant: a file that keeps no hunk stays in the view.
filterUnreviewedKeepsFiles(diff) ==
    [diff EXCEPT !.files =
        [i \in 1..Len(diff.files) |->
            [diff.files[i] EXCEPT !.hunks = SelectSeq(@, LAMBDA h : ~h.reviewed)]]]

\* DiffProcessor.filterUnreviewed
filterUnreviewed(diff) ==
    LET filtered == [i \in 1..Len(diff.files) |->
                        [diff.files[i] EXCEPT !.hunks = SelectSeq(@, LAMBDA h : ~h.reviewed)]]
    IN  [diff EXCEPT !.files = SelectSeq(filtered, LAMBDA f : Len(f.hunks) > 0)]

\* The hunks of the diffs given to the processor: one adds line "a", one
\* removes it, one adds line "b".
AddA == [oldStart |-> 1, changes |-> <<[type |-> "add", content |-> <<"+", "a">>]>>]

DelA == [oldStart |-> 1, changes |-> <<[type |-> "del", content |-> <<"-", "a">>]>>]

AddB == [oldStart |-> 10, changes |-> <<[type |-> "add", content |-> <<"+", "b">>]>>]

ViewChunks == {AddA, DelA, AddB}

MaxHunks == 2

MaxFiles == 2

\* A file of the diff: with up to MaxHunks hunks, or with no chunks at all.
ViewFiles ==
    {[to |-> "f"]}
        \cup {[to |-> "f", chunks |-> c] :
                c \in UNION {[1..k -> ViewChunks] : k \in 0..MaxHunks}}

\* The ledgers the processor is run against: hunks marked under the current
\* session (or sessionless), after AddB was or was not marked under session B.
ViewLedgers(cur) ==
    LET withB == LET atB == setSessionData(createEmptyReviewData, "B")
                 IN  {createEmptyReviewData,
                      markedData(atB, "B", hashHunk(AddB), Undefined)}
        start(d) == IF cur = Null THEN d ELSE setSessionData(d, cur)
        marks(d) == {d,
                     markedData(d, cur, hashHunk(AddA), Undefined),
                     markedData(d, cur, hashHunk(AddB), Undefined),
                     markedData(markedData(d, cur, hashHunk(AddA), Undefined),
                                cur, hashHunk(AddB), Undefined)}
    IN  UNION {marks(start(d)) : d \in withB}

Process ==
    /\ lastOp.op = "new"
    /\ processedDiff' = process(parsedFiles, data, currentSessionId)
    /\ Done("process", NoHash, "ok")
    /\ UNCHANGED <<data, currentSessionId, file, writes, alive, writable, tuiVars,
                   hashVars, parsedFiles, filteredDiff, markedUnder>>

\* Mutant: the filter narrows the view it was given.
FilterUnreviewedInPlace ==
    /\ lastOp.op = "process"
    /\ filteredDiff' = filterUnreviewed(processedDiff)
    /\ processedDiff' = filteredDiff'
    /\ Done("filterUnreviewed", NoHash, "ok")
    /\ UNCHANGED <<data, currentSessionId, file, writes, alive, writable, tuiVars,
                   hashVars, parsedFiles, markedUnder>>

FilterUnreviewed ==
    /\ lastOp.op = "process"
    /\ filteredDiff' = filterUnreviewed(processedDiff)
    /\ Done("filterUnreviewed", NoHash, "ok")
    /\ UNCHANGED <<data, currentSessionId, file, writes, alive, writable, tuiVars,
                   hashVars, parsedFiles, processedDiff, markedUnder>>

InitView ==
    /\ currentSessionId \in {Null, "A"}
    /\ data \in ViewLedgers(currentSessionId)
    /\ file = NoFile
    /\ writes = <<>>
    /\ alive = TRUE
    /\ writable = TRUE
    /\ allHunks = <<>>
    /\ currentHunkIndex = 0
    /\ markedInRuns = {}
    /\ tuiDiff = NoCounts
    /\ tuiStart = NoStart
    /\ keyCount = 0
    /\ chunkPair = <<>>
    /\ hashPair = <<>>
    /\ parsedFiles \in UNION {[1..k -> ViewFiles] : k \in 0..MaxFiles}
    /\ processedDiff = NoDiff
    /\ filteredDiff = NoDiff
    /\ lastOp = [op |-> "new", hash |-> NoHash, out |-> "ok", fresh |-> FALSE]
    /\ markedUnder = {}

NextView ==
    \/ Process
    \/ FilterUnreviewed

SpecView == InitView /\ [][NextView]_vars

\* ---------------------------------------------------------------------------
\* Successive runs of the program on the same diff, storage directory and
\* branch: main() builds the store and the view, the TUI handles keys until
\* quit() ends the process, and the next run starts from the file left behind.
\* ---------------------------------------------------------------------------

\* The diff every run is given: one file, one hunk per fingerprint.
DiffFiles == <<[chunks |-> [i \in 1..Len(HashSeq) |-> [hash |-> HashSeq[i]]]]>>

\* The session git reports in every run.
RunSession == "A"

\* navigateToNextUnreviewed: the first unreviewed hunk after the cursor, or
\* the cursor where it is.
navigateToNextUnreviewed(hunks, index) ==
    LET later == {i \in (index + 1)..(Len(hunks) - 1) : ~hunks[i + 1].reviewed}
    IN  IF later = {} THEN index
        ELSE CHOOSE i \in later : \A j \in later : i <= j

\* The two counters the TUI reads and updates in the diff it was given.
countsOf(processed) ==
    [reviewedHunks |-> processed.reviewedHunks,
     unreviewedHunks |-> processed.unreviewedHunks]

\* What the TUI starts from: the hunks of its view and the two counters.
startOf(hunks, counts) ==
    [hunks |-> hunks,
     reviewedHunks |-> counts.reviewedHunks,
     unreviewedHunks |-> counts.unreviewedHunks]

\* main(): new ReviewStore, load, setSession, process, exit if nothing is
\* left to review, filterUnreviewed, new TUIController, start.
StartRun ==
    /\ ~alive
    /\ LET d == setSessionData(loadedData(createEmptyReviewData, file), RunSession)
           processed == process(DiffFiles, d, RunSession)
           exits == processed.totalHunks = 0 \/ processed.unreviewedHunks = 0
       IN  /\ data' = d
           /\ allHunks' = IF exits THEN <<>>
                          ELSE flattenHunks(filterUnreviewed(processed).files)
           /\ tuiDiff' = IF exits THEN NoCounts
                         ELSE countsOf(filterUnreviewed(processed))
           /\ alive' = ~exits
    /\ tuiStart' = startOf(allHunks', tuiDiff')
    /\ keyCount' = 0
    /\ currentSessionId' = RunSession
    /\ currentHunkIndex' = 0
    /\ writes' = <<>>
    /\ markedInRuns' = markedInRuns
                          \cup {allHunks[i].hash : i \in {j \in 1..Len(allHunks) : allHunks[j].reviewed}}
    /\ markedUnder' = {}
    /\ Done("run", NoHash, "ok")
    /\ UNCHANGED <<file, writable, hashVars, viewVars>>

\* Space: markCurrentHunk up to its await, i.e. markHunkReviewed up to the
\* writeFile of save().
PressSpace ==
    /\ alive
    /\ Len(writes) < MaxInFlight
    /\ keyCount < MaxKeys
    /\ currentHunkIndex < Len(allHunks)
    /\ LET hunk == allHunks[currentHunkIndex + 1]
       IN  /\ ~hunk.reviewed
           /\ Has(data.reviewedHunks, hunk.hash)
                 => data.reviewedHunks[hunk.hash].reviewCount < MaxReviewCount
           /\ data' = markedData(data, currentSessionId, hunk.hash, ContextOf(hunk.hash))
           /\ writes' = Append(writes, [content |-> stringify(data'),
                                        phase |-> "queued",
                                        hunk |-> currentHunkIndex,
                                        key |-> "space"])
           /\ markedUnder' = markedUnder \cup {<<currentSessionId, hunk.hash>>}
           /\ Done("space", hunk.hash, "ok")
    /\ keyCount' = keyCount + 1
    /\ UNCHANGED <<currentSessionId, file, alive, writable, allHunks, currentHunkIndex,
                   markedInRuns, tuiDiff, tuiStart, hashVars, viewVars>>

\* The write of a Space is done (see WriteData) and markCurrentHunk resumes:
\* hunk.reviewed = true, the two counters, then navigateToNextUnreviewed.
SpaceResumes(i) ==
    /\ alive
    /\ writes[i].key = "space"
    /\ writes[i].phase = "open"
    /\ writes' = RemoveAt(writes, i)
    /\ \/ file' = Written(writes[i].content)
       \/ file.kind = "text" /\ file' = Truncated
    /\ allHunks' = [allHunks EXCEPT ![writes[i].hunk + 1].reviewed = TRUE]
    /\ tuiDiff' = [reviewedHunks |-> tuiDiff.reviewedHunks + 1,
                   unreviewedHunks |-> tuiDiff.unreviewedHunks - 1]
    /\ currentHunkIndex' = navigateToNextUnreviewed(allHunks', currentHunkIndex)
    /\ Done("marked", allHunks[writes[i].hunk + 1].hash, "ok")
    /\ UNCHANGED <<data, currentSessionId, alive, writable, markedInRuns, tuiStart,
                   keyCount, markedUnder, hashVars, viewVars>>

\* u: unmarkCurrentHunk up to its await.  unmarkHunk deletes the record and
\* saves, or, without a record, returns a promise that is already resolved;
\* in both cases the handler resumes in a later turn.
PressU ==
    /\ alive
    /\ Len(writes) < MaxInFlight
    /\ keyCount < MaxKeys
    /\ currentHunkIndex < Len(allHunks)
    /\ LET hunk == allHunks[currentHunkIndex + 1]
       IN  /\ hunk.reviewed
           /\ IF Has(data.reviewedHunks, hunk.hash)
              THEN /\ data' = unmarkedData(data, hunk.hash)
                   /\ writes' = Append(writes, [content |-> stringify(data'),
                                                phase |-> "queued",
                                                hunk |-> currentHunkIndex,
                                                key |-> "u"])
              ELSE /\ data' = data
                   /\ writes' = Append(writes, [content |-> stringify(data),
                                                phase |-> "resolved",
                                                hunk |-> currentHunkIndex,
                                                key |-> "u"])
           /\ Done("u", hunk.hash, "ok")
    /\ keyCount' = keyCount + 1
    /\ UNCHANGED <<currentSessionId, file, alive, writable, markedUnder, allHunks,
                   currentHunkIndex, markedInRuns, tuiDiff, tuiStart, hashVars, viewVars>>

\* unmarkCurrentHunk resumes, after the write of its save when there was
\* one: hunk.reviewed = false and the two counters.  The cursor stays.
UResumes(i) ==
    /\ alive
    /\ writes[i].key = "u"
    /\ writes[i].phase \in {"open", "resolved"}
    /\ writes' = RemoveAt(writes, i)
    /\ IF writes[i].phase = "open"
       THEN \/ file' = Written(writes[i].content)
            \/ file.kind = "text" /\ file' = Truncated
       ELSE file' = file
    /\ allHunks' = [allHunks EXCEPT ![writes[i].hunk + 1].reviewed = FALSE]
    /\ tuiDiff' = [reviewedHunks |-> tuiDiff.reviewedHunks - 1,
                   unreviewedHunks |-> tuiDiff.unreviewedHunks + 1]
    /\ Done("unmarked", allHunks[writes[i].hunk + 1].hash, "ok")
    /\ UNCHANGED <<data, currentSessionId, alive, writable, currentHunkIndex,
                   markedInRuns, tuiStart, keyCount, markedUnder, hashVars, viewVars>>

\* Mutant: down moves on from every hunk, the last one included.
NavigateNextPastEnd ==
    /\ alive
    /\ currentHunkIndex < Len(allHunks)
    /\ currentHunkIndex' = currentHunkIndex + 1
    /\ Done("down", NoHash, "ok")
    /\ UNCHANGED <<data, currentSessionId, file, writes, alive, writable,
                   allHunks, markedInRuns, tuiDiff, tuiStart, keyCount, markedUnder,
                   hashVars, viewVars>>

\* down / j
NavigateNext ==
    /\ alive
    /\ currentHunkIndex < Len(allHunks) - 1
    /\ currentHunkIndex' = currentHunkIndex + 1
    /\ Done("down", NoHash, "ok")
    /\ UNCHANGED <<data, currentSessionId, file, writes, alive, writable,
                   allHunks, markedInRuns, tuiDiff, tuiStart, keyCount, markedUnder,
                   hashVars, viewVars>>

\* up / k
NavigatePrevious ==
    /\ alive
    /\ currentHunkIndex > 0
    /\ currentHunkIndex' = currentHunkIndex - 1
    /\ Done("up", NoHash, "ok")
    /\ UNCHANGED <<data, currentSessionId, file, writes, alive, writable,
                   allHunks, markedInRuns, tuiDiff, tuiStart, keyCount, markedUnder,
                   hashVars, viewVars>>

\* Before the first run: no process, no file.
InitRuns ==
    /\ data = createEmptyReviewData
    /\ currentSessionId = Null
    /\ file = NoFile
    /\ writes = <<>>
    /\ alive = FALSE
    /\ writable = TRUE
    /\ allHunks = <<>>
    /\ currentHunkIndex = 0
    /\ markedInRuns = {}
    /\ tuiDiff = NoCounts
    /\ tuiStart = NoStart
    /\ keyCount = 0
    /\ chunkPair = <<>>
    /\ hashPair = <<>>
    /\ parsedFiles = <<>>
    /\ processedDiff = NoDiff
    /\ filteredDiff = NoDiff
    /\ lastOp = [op |-> "new", hash |-> NoHash, out |-> "ok", fresh |-> FALSE]
    /\ markedUnder = {}

NextRuns ==
    \/ StartRun
    \/ PressSpace
    \/ \E i \in 1..Len(writes) : WriteOpen(i)
    \/ \E i \in 1..Len(writes) : SpaceResumes(i)
    \/ PressU
    \/ \E i \in 1..Len(writes) : UResumes(i)
    \/ NavigateNext
    \/ NavigatePrevious
    \/ Quit

SpecRuns == InitRuns /\ [][NextRuns]_vars

\* ---------------------------------------------------------------------------
\* One run of the TUI, from the view main() hands to it: the full view
\* (index.ts, which sets no session) or the view filterUnreviewed returned
\* (part_001), of a diff in which a fingerprint may occur more than once.
\* ---------------------------------------------------------------------------

\* The fingerprints of the hunks of the diff, in order: all different, or
\* one of them twice.
TuiHashSeqs == {<<"h1", "h2">>, <<"h1", "h1">>, <<"h1", "h2", "h1">>}

TuiFiles(hs) == <<[chunks |-> [i \in 1..Len(hs) |-> [hash |-> hs[i]]]]>>

\* The ledgers load() and setSession leave for the run: nothing reviewed yet,
\* or one fingerprint reviewed and saved by an earlier run.
TuiLedgers(cur) ==
    LET d0 == IF cur = Null THEN createEmptyReviewData
              ELSE setSessionData(createEmptyReviewData, cur)
    IN  {d0} \cup {markedData(d0, cur, h, ContextOf(h)) : h \in Hashes}

InitTui ==
    /\ \E cur \in {Null, RunSession}, hs \in TuiHashSeqs, filtered \in BOOLEAN :
          \E d \in TuiLedgers(cur) :
             LET processed == process(TuiFiles(hs), d, cur)
                 view == IF filtered THEN filterUnreviewed(processed) ELSE processed
             IN  /\ ~filtered => cur = Null
                 /\ processed.unreviewedHunks > 0
                 /\ data = d
                 /\ currentSessionId = cur
                 /\ file = IF d.reviewedHunks = EmptyObject THEN NoFile ELSE savedFile(d)
                 /\ allHunks = flattenHunks(view.files)
                 /\ tuiDiff = countsOf(view)
                 /\ tuiStart = startOf(allHunks, tuiDiff)
    /\ writes = <<>>
    /\ alive = TRUE
    /\ writable = TRUE
    /\ currentHunkIndex = 0
    /\ markedInRuns = {}
    /\ keyCount = 0
    /\ chunkPair = <<>>
    /\ hashPair = <<>>
    /\ parsedFiles = <<>>
    /\ processedDiff = NoDiff
    /\ filteredDiff = NoDiff
    /\ lastOp = [op |-> "new", hash |-> NoHash, out |-> "ok", fresh |-> FALSE]
    /\ markedUnder = {}

NextTui ==
    \/ PressSpace
    \/ \E i \in 1..Len(writes) : WriteOpen(i)
    \/ \E i \in 1..Len(writes) : SpaceResumes(i)
    \/ PressU
    \/ \E i \in 1..Len(writes) : UResumes(i)
    \/ NavigateNext
    \/ NavigatePrevious
    \/ Quit

SpecTui == InitTui /\ [][NextTui]_vars

\* ================================================================ claims
InSession(d, f, s) == hasReviewedInSession(d, f, s)

InRecord(d, f, s) == Has(d.reviewedHunks, f) /\ Includes(d.reviewedHunks[f].sessions, s)

Total(d) == getStats(d).totalReviewedHunks

\* C1: after every completed call, a fingerprint is in a session's
\* reviewedHashes exactly when its record exists and lists that session.
C1_ReferentialIntegrity ==
    \A f \in Hashes, s \in SessionIds : InSession(data, f, s) <=> InRecord(data, f, s)

\* C2: after every completed call, getStats().totalReviewedHunks is the
\* number of keys of reviewedHunks.
C2_CounterConsistency ==
    Total(data) = Cardinality(DOMAIN data.reviewedHunks)

C2_Witness ==
    /\ lastOp.op \in {"unmark", "resetSession"}
    /\ Total(data) = 1
    /\ \E f \in Hashes : Has(data.reviewedHunks, f) /\ data.reviewedHunks[f].reviewCount = 2

\* C3: isReviewed(f) under session B holds only if mark(f) was made while B
\* was the active session; a mark made under another session never sets it.
C3_SessionIsolation ==
    \A B \in SessionIds, f \in Hashes :
        hasReviewedHunk(data, B, f) => <<B, f>> \in markedUnder

C3_Witness ==
    \E A \in SessionIds, B \in SessionIds, f \in Hashes :
        /\ A # B
        /\ lastOp = [op |-> "setSession", hash |-> NoHash, out |-> "ok", fresh |-> FALSE]
        /\ currentSessionId = B
        /\ <<A, f>> \in markedUnder
        /\ hasReviewedHunk(data, A, f)
        /\ Has(data.reviewedHunks, f)
        /\ ~hasReviewedHunk(data, currentSessionId, f)

\* C4: unmark(f) with A active, f marked under A and B, removes only A's
\* membership: the record stays with B listed, the counter is unchanged and
\* f stays reviewed under B.
C4_UnmarkScoped ==
    [][\A f \in Hashes, A \in SessionIds, B \in SessionIds :
        ( /\ lastOp'.op = "unmark" /\ lastOp'.hash = f
          /\ currentSessionId = A /\ A # B
          /\ InSession(data, f, A) /\ InSession(data, f, B)
          /\ InRecord(data, f, A) /\ InRecord(data, f, B) )
        => ( /\ InRecord(data', f, B)
             /\ ~InRecord(data', f, A)
             /\ ~InSession(data', f, A)
             /\ InSession(data', f, B)
             /\ Total(data') = Total(data) )]_vars

\* C5: after unmark(f) completes, isReviewed(f) is false in the mode of the call.
C5_UnmarkedNotReviewed ==
    lastOp.op = "unmark" => ~hasReviewedHunk(data, currentSessionId, lastOp.hash)

\* C6: after mark(f) completes, isReviewed(f) is true in the mode of the call.
C6_MarkedIsReviewed ==
    lastOp.op = "mark" => hasReviewedHunk(data, currentSessionId, lastOp.hash)

\* C7: resetSession with S active: a fingerprint reviewed only in S loses its
\* record and is not reviewed under S; one reviewed in S and in another
\* session keeps its record, without S, and stays reviewed there; the entry
\* of S is deleted; the counter drops by the number of records deleted.
C7_ResetSessionCorrect ==
    [][\A S \in SessionIds :
        (lastOp'.op = "resetSession" /\ currentSessionId = S)
        => ( /\ \A f \in Hashes :
                   InSession(data, f, S) =>
                      IF \E T \in SessionIds \ {S} : InSession(data, f, T)
                      THEN /\ Has(data'.reviewedHunks, f)
                           /\ ~InRecord(data', f, S)
                           /\ \A T \in SessionIds \ {S} :
                                 InSession(data, f, T) => InSession(data', f, T)
                      ELSE /\ ~Has(data'.reviewedHunks, f)
                           /\ ~InSession(data', f, S)
             /\ ~Has(data'.sessions, S)
             /\ Total(data') = Total(data)
                  - Cardinality(DOMAIN data.reviewedHunks \ DOMAIN data'.reviewedHunks) )]_vars

\* C8: resetSession with no active session changes neither the ledger in
\* memory nor the snapshot on disk and reports "no session detected".
C8_ResetSessionNoSession ==
    [][(lastOp'.op = "resetSession" /\ currentSessionId = Null)
        => ( /\ data' = data
             /\ file' = file
             /\ lastOp'.out = "no session detected" )]_vars

C8_Witness ==
    /\ lastOp.op = "resetSession"
    /\ lastOp.out = "no session detected"
    /\ currentSessionId = Null
    /\ data.reviewedHunks # EmptyObject
    /\ data.sessions # EmptyObject
    /\ file.kind = "text"

\* C9: at every instant the storage file is absent or a complete snapshot.
C9_NoPartialWrite ==
    file.kind \in {"absent", "text"}

\* C10: save() then load() into a fresh store gives the same records (session
\* lists, review counts), the same sessions (reviewed hashes) and the same
\* counter, for every ledger the calls can produce.
SameLedger(d1, d2) ==
    /\ DOMAIN d1.reviewedHunks = DOMAIN d2.reviewedHunks
    /\ \A f \in DOMAIN d1.reviewedHunks :
          /\ d1.reviewedHunks[f].sessions = d2.reviewedHunks[f].sessions
          /\ d1.reviewedHunks[f].reviewCount = d2.reviewedHunks[f].reviewCount
    /\ DOMAIN d1.sessions = DOMAIN d2.sessions
    /\ \A s \in DOMAIN d1.sessions :
          d1.sessions[s].reviewedHashes = d2.sessions[s].reviewedHashes
    /\ Total(d1) = Total(d2)

C10_RoundTrip ==
    SameLedger(loadedData(createEmptyReviewData, savedFile(data)), data)

C10_Witness ==
    /\ lastOp.op = "load"
    /\ lastOp.fresh
    /\ file = savedFile(data)
    /\ Cardinality(DOMAIN data.reviewedHunks) = 2
    /\ Cardinality(DOMAIN data.sessions) = 2
    /\ \E f \in Hashes : Len(data.reviewedHunks[f].sessions) = 2

\* ---------------------------------------------------------------------------
\* Persistence of the ledger calls.
\* ---------------------------------------------------------------------------

\* What a fresh store would load from the file.
Snapshot(f) == loadedData(createEmptyReviewData, f)

\* C11 (as stated): whenever no call is in progress, the persisted snapshot
\* holds the same records, sessions and counter as the in-memory ledger, for
\* every sequence of setSession, mark, unmark and reset calls.
C11_SnapshotAgrees == SameLedger(Snapshot(file), data)

\* C11 (amended): setSession creates its session entry in memory only, so the
\* snapshot holds the same records and counter as the in-memory ledger and the
\* same sessions except for sessions that have no reviewed hash yet, which
\* may be missing from the snapshot until the next mark, unmark or reset.
C11_SnapshotAgreesUpToNewSessions ==
    LET snap == Snapshot(file)
    IN  /\ SameLedger([snap EXCEPT !.sessions = EmptyObject],
                      [data EXCEPT !.sessions = EmptyObject])
        /\ DOMAIN snap.sessions \subseteq DOMAIN data.sessions
        /\ \A s \in DOMAIN data.sessions :
              IF Has(snap.sessions, s)
              THEN snap.sessions[s].reviewedHashes = data.sessions[s].reviewedHashes
              ELSE data.sessions[s].reviewedHashes = <<>>

\* A session set after a mark was saved: in memory, not in the snapshot.
C11_Witness ==
    /\ lastOp.op = "setSession"
    /\ file.kind = "text"
    /\ data.reviewedHunks # EmptyObject
    /\ DOMAIN Snapshot(file).sessions # DOMAIN data.sessions

\* The calls that reach `await this.save()`: mark and reset always, unmark
\* when it finds a record.
Saves(d, op, hash) ==
    \/ op \in {"mark", "reset"}
    \/ op = "unmark" /\ Has(d.reviewedHunks, hash)

\* C12: if writing the snapshot fails during mark, unmark or reset, the call
\* fails with that error to its caller and never reports success.
C12_SaveFailurePropagates ==
    [][(Saves(data, lastOp'.op, lastOp'.hash) /\ ~writable)
         => lastOp'.out = "error"]_vars

\* An unmark that found a record has hit a disk that rejects the write.
C12_Witness ==
    /\ ~writable
    /\ lastOp.op = "unmark"
    /\ lastOp.out = "error"

\* C13 (as stated): a failed mark, unmark or reset leaves no partial effect:
\* if the in-memory ledger agreed with the snapshot before the failed call,
\* it agrees with it after.
C13_FailedCallLeavesNoEffect ==
    [][(SameLedger(Snapshot(file), data) /\ lastOp'.out = "error")
         => SameLedger(Snapshot(file'), data')]_vars

\* ---------------------------------------------------------------------------
\* Loading what another run left in the storage directory.
\* ---------------------------------------------------------------------------

\* C14 (as stated): when the storage file is absent, unreadable, not valid
\* JSON or of another version, load() completes without an error and the
\* in-memory ledger is empty (no records, no sessions, counter 0).
C14_LoadFallsBackToEmpty ==
    (lastOp.op = "load" /\ file \in BadFiles)
        => (lastOp.out = "ok" /\ data = createEmptyReviewData)

\* C15 (as stated): after load() of a snapshot written before session
\* tracking, setSession followed by mark(f) completes without error for every
\* fingerprint f, including one that already has a legacy record.
C15_LegacyMarkCompletes ==
    lastOp.op = "mark" => lastOp.out = "ok"

\* ---------------------------------------------------------------------------
\* The calls of the ledger, one by one.
\* ---------------------------------------------------------------------------

\* C16: with no active session, isReviewed(f) is true exactly when a record
\* for f exists, whichever session or sessionless call created it.
C16_SessionlessFallback ==
    currentSessionId = Null =>
        \A f \in Hashes :
            hasReviewedHunk(data, currentSessionId, f) <=> Has(data.reviewedHunks, f)

\* No session is active; one record was created under a session, another by a
\* sessionless call.
C16_Witness ==
    /\ currentSessionId = Null
    /\ \E f \in Hashes : Has(data.reviewedHunks, f) /\ data.reviewedHunks[f].sessions # <<>>
    /\ \E f \in Hashes : Has(data.reviewedHunks, f) /\ data.reviewedHunks[f].sessions = <<>>

\* C17: the first mark of a fingerprint creates a record with reviewCount 1
\* and sessions = {active session} (empty if sessionless) and adds one to
\* totalReviewedHunks; every later mark adds one to reviewCount, adds the
\* active session to the record's sessions if it is not there, and leaves
\* totalReviewedHunks as it is.
C17_MarkRecordSemantics ==
    [][lastOp'.op = "mark" =>
        LET f == lastOp'.hash
            cur == currentSessionId
        IN  /\ lastOp'.out = "ok"
            /\ Has(data'.reviewedHunks, f)
            /\ IF ~Has(data.reviewedHunks, f)
               THEN /\ data'.reviewedHunks[f].reviewCount = 1
                    /\ data'.reviewedHunks[f].sessions =
                           (IF cur # Null THEN <<cur>> ELSE <<>>)
                    /\ Total(data') = Total(data) + 1
               ELSE /\ data'.reviewedHunks[f].reviewCount =
                           data.reviewedHunks[f].reviewCount + 1
                    /\ Range(data'.reviewedHunks[f].sessions) =
                           Range(data.reviewedHunks[f].sessions)
                               \cup (IF cur # Null THEN {cur} ELSE {})
                    /\ Len(data'.reviewedHunks[f].sessions) =
                           Cardinality(Range(data'.reviewedHunks[f].sessions))
                    /\ Total(data') = Total(data)]_vars

\* mark(H) under one session, then mark(H) under the other: both sessions in
\* the record, reviewCount 2, counter 1.
C17_Witness ==
    /\ lastOp.op = "mark"
    /\ data.reviewedHunks[lastOp.hash].sessions = SessionSeq
    /\ data.reviewedHunks[lastOp.hash].reviewCount = 2
    /\ Total(data) = 1

\* C18 (as stated): every record in the ledger has a non-empty sessions list.
C18_SessionsNonEmpty ==
    \A f \in Hashes :
        Has(data.reviewedHunks, f) => data.reviewedHunks[f].sessions # <<>>

\* C18 (amended): a record has an empty sessions list only from a sessionless
\* mark that created it, and only until it is marked with a session active;
\* a record created with a session active never has an empty list.
C18_EmptyOnlyFromSessionlessMark ==
    [][\A f \in Hashes :
          (Has(data'.reviewedHunks, f) /\ data'.reviewedHunks[f].sessions = <<>>)
              => \/ /\ Has(data.reviewedHunks, f)
                    /\ data.reviewedHunks[f].sessions = <<>>
                    /\ ~(lastOp'.op = "mark" /\ lastOp'.hash = f
                            /\ currentSessionId # Null)
                 \/ /\ ~Has(data.reviewedHunks, f)
                    /\ lastOp'.op = "mark"
                    /\ lastOp'.hash = f
                    /\ currentSessionId = Null]_vars

\* A record created by a sessionless mark is still there, with its empty
\* list, after a mark in a session created another record.
C18_Witness ==
    /\ lastOp.op = "mark"
    /\ currentSessionId # Null
    /\ data.reviewedHunks[lastOp.hash].sessions = <<currentSessionId>>
    /\ \E f \in Hashes : Has(data.reviewedHunks, f) /\ data.reviewedHunks[f].sessions = <<>>

\* C19: after reset() there are no records and no sessions, the counter is 0,
\* isReviewed(f) is false for every fingerprint under every session and
\* without one, and the persisted snapshot is the empty ledger.
C19_ResetDiscardsAll ==
    lastOp.op = "reset" =>
        /\ data.reviewedHunks = EmptyObject
        /\ data.sessions = EmptyObject
        /\ getStats(data).totalReviewedHunks = 0
        /\ \A f \in Hashes : \A s \in SessionIds \cup {Null} :
              ~hasReviewedHunk(data, s, f)
        /\ file.kind = "text"
        /\ Snapshot(file) = createEmptyReviewData

\* reset() has run with a session active and a file on disk.
C19_Witness ==
    /\ lastOp.op = "reset"
    /\ currentSessionId # Null
    /\ file = savedFile(createEmptyReviewData)

\* ---------------------------------------------------------------------------
\* Runs of the program.
\* ---------------------------------------------------------------------------

\* C20 (as stated): for successive runs on the same diff, storage directory
\* and session, a hunk the TUI has marked as reviewed in an earlier run is
\* not in the view of a later run.
C20_ReviewedDoNotReappear ==
    \A i \in 1..Len(allHunks) : allHunks[i].hash \notin markedInRuns

\* ---------------------------------------------------------------------------
\* Switching between sessions.
\* ---------------------------------------------------------------------------

\* C21: setSession and mark calls never take a fingerprint out of any
\* session's reviewedHashes; setSession leaves every existing entry as it is
\* and afterwards isReviewed(f) is membership in the selected session's
\* list; mark under a selected session puts f in that list.  So after mark(f)
\* under A, calls under other sessions and setSession(A) again, isReviewed(f)
\* is still true.
C21_SwitchingBackRestores ==
    [][lastOp'.op \in {"setSession", "mark"} =>
        /\ \A s \in DOMAIN data.sessions :
              /\ Has(data'.sessions, s)
              /\ \A f \in Hashes : InSession(data, f, s) => InSession(data', f, s)
        /\ lastOp'.op = "setSession" =>
              /\ \A s \in DOMAIN data.sessions :
                    data'.sessions[s].reviewedHashes = data.sessions[s].reviewedHashes
              /\ \A f \in Hashes :
                    hasReviewedHunk(data', currentSessionId', f)
                        <=> InSession(data, f, currentSessionId')
        /\ (lastOp'.op = "mark" /\ currentSessionId # Null
                /\ Has(data.sessions, currentSessionId)) =>
              InSession(data', lastOp'.hash, currentSessionId)]_vars

\* Back in session A after marks under B: h1, marked under A only, is
\* reviewed again; h2, marked under B only, is not.
C21_Witness ==
    /\ lastOp.op = "setSession"
    /\ currentSessionId = "A"
    /\ markedUnder = {<<"A", "h1">>, <<"B", "h2">>}
    /\ hasReviewedHunk(data, currentSessionId, "h1")
    /\ ~hasReviewedHunk(data, currentSessionId, "h2")
    /\ InSession(data, "h2", "B")

\* ---------------------------------------------------------------------------
\* Fingerprints.
\* ---------------------------------------------------------------------------

\* The added and removed lines of a hunk, in order, with their kind.
ChangedLines(chunk) ==
    SelectSeq(chunk.changes, LAMBDA change : change.type \in {"add", "del"})

AlteredAt(i) ==
    LET c1 == chunkPair[1].changes
        c2 == chunkPair[2].changes
    IN  /\ chunkPair[1].oldStart = chunkPair[2].oldStart
        /\ Len(c1) = Len(c2)
        /\ i \in 1..Len(c1)
        /\ c1[i].type \in {"add", "del"}
        /\ c1[i].type = c2[i].type
        /\ c1[i].content # c2[i].content
        /\ \A j \in 1..Len(c1) : j # i => c1[j] = c2[j]

\* C23 (as stated): with whitespace normalization off, altering the text of
\* any added or removed line of a hunk changes the hunk's fingerprint.
C23_AlteredTextChangesFingerprint ==
    (hashPair # <<>> /\ ~NormalizeWhitespace)
        => \A i \in 1..MaxChanges : AlteredAt(i) => hashPair[1] # hashPair[2]

\* C23 (amended): altering the text of an added or removed line changes the
\* fingerprint when the two texts differ in more than ANSI escape sequences;
\* texts that differ only in escape sequences give the same fingerprint.
C23_AlteredPlainTextChangesFingerprint ==
    (hashPair # <<>> /\ ~NormalizeWhitespace)
        => \A i \in 1..MaxChanges :
              AlteredAt(i) =>
                  ((hashPair[1] # hashPair[2])
                      <=> (stripAnsi(chunkPair[1].changes[i].content)
                              # stripAnsi(chunkPair[2].changes[i].content)))

\* Two hunks removing one line and adding another, the added line altered
\* from "a" to "b", hashed.
C23_Witness ==
    /\ hashPair # <<>>
    /\ AlteredAt(2)
    /\ chunkPair[1].changes[1].type = "del"
    /\ chunkPair[1].changes[2].content = <<"+", "a">>
    /\ chunkPair[2].changes[2].content = <<"+", "b">>

\* The kinds (added / removed) of the changed lines of a hunk, in order.
Kinds(chunk) ==
    LET changed == ChangedLines(chunk)
    IN  [i \in 1..Len(changed) |-> changed[i].type]

\* C24 (as stated): two hunks get the same fingerprint only if their changed
\* lines agree in kind (added vs removed) as well as in text.
C24_SameFingerprintSameKinds ==
    (hashPair # <<>> /\ hashPair[1] = hashPair[2])
        => Kinds(chunkPair[1]) = Kinds(chunkPair[2])

\* ---------------------------------------------------------------------------
\* The view of a diff.
\* ---------------------------------------------------------------------------

\* The positions <<file, hunk>> of the hunks of the parsed diff.
HunkPositions ==
    {p \in (1..Len(parsedFiles)) \X (1..MaxHunks) :
        p[2] <= Len(chunksOf(parsedFiles[p[1]]))}

\* C25: process(diff) attaches to every hunk its fingerprint and reviewed =
\* isReviewed(fingerprint) against the ledger at that time, returns
\* totalHunks = number of hunks of the diff, reviewedHunks = number of hunks
\* flagged reviewed and unreviewedHunks = totalHunks - reviewedHunks, and
\* leaves the ledger and the persisted snapshot unchanged.
C25_Projection ==
    [][lastOp'.op = "process" =>
        LET view == processedDiff'
        IN  /\ Len(view.files) = Len(parsedFiles)
            /\ \A i \in 1..Len(parsedFiles) :
                  Len(view.files[i].hunks) = Len(chunksOf(parsedFiles[i]))
            /\ \A p \in HunkPositions :
                  LET hunk == view.files[p[1]].hunks[p[2]]
                      chunk == parsedFiles[p[1]].chunks[p[2]]
                  IN  /\ hunk.chunk = chunk
                      /\ hunk.hash = hashHunk(chunk)
                      /\ hunk.reviewed = hasReviewedHunk(data, currentSessionId, hunk.hash)
            /\ view.totalHunks = Cardinality(HunkPositions)
            /\ view.reviewedHunks =
                  Cardinality({p \in HunkPositions : view.files[p[1]].hunks[p[2]].reviewed})
            /\ view.unreviewedHunks = view.totalHunks - view.reviewedHunks
            /\ data' = data
            /\ currentSessionId' = currentSessionId
            /\ file' = file]_vars

\* A diff of two files processed in session A: some hunks reviewed in A, some
\* not, one of them recorded under session B only.
C25_Witness ==
    /\ lastOp.op = "process"
    /\ currentSessionId = "A"
    /\ processedDiff.totalHunks = 4
    /\ processedDiff.reviewedHunks = 2
    /\ Has(data.reviewedHunks, hashHunk(AddB))
    /\ ~hasReviewedHunk(data, currentSessionId, hashHunk(AddB))

\* The files of a view that have a hunk with reviewed = false.
WithUnreviewed(view) ==
    SelectSeq(view.files, LAMBDA f : \E j \in 1..Len(f.hunks) : ~f.hunks[j].reviewed)

\* C26: filterUnreviewed(view) returns a new view that keeps, per file and in
\* the original order, exactly the hunks with reviewed = false, drops every
\* file left with zero hunks, and does not mutate its input view.
C26_FilterUnreviewed ==
    [][lastOp'.op = "filterUnreviewed" =>
        LET kept == WithUnreviewed(processedDiff)
            out == filteredDiff'.files
        IN  /\ processedDiff' = processedDiff
            /\ Len(out) = Len(kept)
            /\ \A k \in 1..Len(out) :
                  /\ out[k].file = kept[k].file
                  /\ out[k].fileIndex = kept[k].fileIndex
                  /\ out[k].hunks # <<>>
                  /\ out[k].hunks = SelectSeq(kept[k].hunks, LAMBDA h : ~h.reviewed)]_vars

\* A view of two files filtered: one file dropped, the other with fewer
\* hunks than before.
C26_Witness ==
    /\ lastOp.op = "filterUnreviewed"
    /\ Len(processedDiff.files) = 2
    /\ Len(filteredDiff.files) = 1
    /\ Len(filteredDiff.files[1].hunks) = 1
    /\ Len(processedDiff.files[filteredDiff.files[1].fileIndex + 1].hunks) = 2

\* C27 (as stated): for every view produced by process() that contains no
\* reviewed hunk, filterUnreviewed(view) equals the view.
C27_FilterIdempotence ==
    (lastOp.op = "filterUnreviewed" /\ processedDiff.reviewedHunks = 0)
        => filteredDiff = processedDiff

\* C27 (amended): for a view without reviewed hunks, filterUnreviewed(view)
\* is the view without its files that have no hunk (and equals the view when
\* every file has a hunk); filtering the result again changes nothing.
C27_FilterIdempotenceUpToEmptyFiles ==
    lastOp.op = "filterUnreviewed" =>
        /\ processedDiff.reviewedHunks = 0 =>
              filteredDiff = [processedDiff EXCEPT
                                !.files = SelectSeq(@, LAMBDA f : f.hunks # <<>>)]
        /\ (processedDiff.reviewedHunks = 0
                /\ \A i \in 1..Len(processedDiff.files) : processedDiff.files[i].hunks # <<>>)
              => filteredDiff = processedDiff
        /\ filterUnreviewed(filteredDiff) = filteredDiff

\* A view without reviewed hunks and with a file without hunks, filtered.
C27_Witness ==
    /\ lastOp.op = "filterUnreviewed"
    /\ processedDiff.reviewedHunks = 0
    /\ processedDiff.totalHunks = 2
    /\ Len(processedDiff.files) = 2
    /\ Len(filteredDiff.files) = 1

\* ---------------------------------------------------------------------------
\* The keys of the TUI.
\* ---------------------------------------------------------------------------

\* The index (from 0) of the hunk of the view that has the given hash.
IndexOf(hash) == CHOOSE i \in 0..(Len(allHunks) - 1) : allHunks[i + 1].hash = hash

\* C28 (as stated): a Space on an unreviewed hunk at index i marks a hunk no
\* earlier Space is still marking (k presses mark min(k, n) distinct
\* hunks), and once it is marked the cursor is on the smallest index j > i
\* whose hunk is unreviewed, or at i when there is none.  A press is the
\* step that queues a save, a completed mark the step that takes it off.
C28_SpaceMarksAndAdvances ==
    [][/\ (lastOp'.op = "space" /\ Len(writes') > Len(writes)) =>
              \A w \in 1..Len(writes) :
                 ~(writes[w].key = "space" /\ writes[w].hunk = currentHunkIndex)
       /\ (lastOp'.op = "marked" /\ Len(writes') < Len(writes)) =>
              LET i == IndexOf(lastOp'.hash)
                  later == {j \in (i + 1)..(Len(allHunks) - 1) : ~allHunks'[j + 1].reviewed}
              IN  /\ allHunks'[i + 1].reviewed
                  /\ IF later = {}
                     THEN currentHunkIndex' = i
                     ELSE /\ currentHunkIndex' \in later
                          /\ \A j \in later : currentHunkIndex' <= j]_vars

\* C29 (as stated): once the last unreviewed hunk of the view is marked, the
\* program terminates by itself, without a quit key: the TUI is never up
\* with every hunk of its view reviewed.
C29_ExitsWhenAllReviewed ==
    alive => \E i \in 1..Len(allHunks) : ~allHunks[i].reviewed

\* C30 (as stated): every Space press accepted on an unreviewed hunk is
\* persisted before the process exits, also when the quit key is handled
\* while the mark's save is pending: once the process has exited, the
\* snapshot holds every hunk a Space of the run was accepted on.
C30_MarksPersistedAtExit ==
    ~alive =>
        \A m \in markedUnder :
            /\ Has(Snapshot(file).reviewedHunks, m[2])
            /\ InSession(Snapshot(file), m[2], m[1])

\* The displayed hunks whose reviewed flag was `was` when the TUI started
\* and is `now` now.
Flipped(was, now) ==
    {i \in 1..Len(allHunks) :
        tuiStart.hunks[i].reviewed = was /\ allHunks[i].reviewed = now}

\* C31 (as stated): in every state of the TUI, diff.reviewedHunks minus its
\* start-up value is the number of displayed hunks whose flag went from
\* false to true, net of those that went from true to false, and
\* reviewedHunks + unreviewedHunks keeps its start-up value.
C31_HunkCountedOnce ==
    alive =>
        /\ tuiDiff.reviewedHunks - tuiStart.reviewedHunks
              = Cardinality(Flipped(FALSE, TRUE)) - Cardinality(Flipped(TRUE, FALSE))
        /\ tuiDiff.reviewedHunks + tuiDiff.unreviewedHunks
              = tuiStart.reviewedHunks + tuiStart.unreviewedHunks

\* C32 (as stated): when mutating calls are issued without waiting for one
\* another's save, then once every save has completed the persisted
\* snapshot is the final in-memory ledger, never an older one.
C32_OverlappingSavesConverge ==
    (alive /\ writes = <<>> /\ file # NoFile) => file = savedFile(data)

\* C33 (as stated): once the handlers of the keys have completed, the
\* reviewed flag of every displayed hunk is what the store's
\* hasReviewedHunk answers for its fingerprint.
C33_ViewAgreesWithLedger ==
    (alive /\ writes = <<>>) =>
        \A i \in 1..Len(allHunks) :
            allHunks[i].reviewed = hasReviewedHunk(data, currentSessionId, allHunks[i].hash)

\* C34 (as stated): in every state of the TUI, given the full view or the
\* view filterUnreviewed returned, the status bar's reviewed count (the
\* diff's reviewedHunks) is between 0 and its total, the number of
\* displayed hunks.
C34_StatusBarInRange ==
    alive => /\ 0 <= tuiDiff.reviewedHunks
             /\ tuiDiff.reviewedHunks <= Len(allHunks)

\* C35 (as stated): whenever an active session id is set on the store, the
\* sessions map holds an entry for it, after the constructor, load,
\* setSession, mark, unmark and reset in any order.
C35_ActiveSessionHasEntry ==
    currentSessionId # Null => Has(data.sessions, currentSessionId)

\* A JS array used as a set holds no element twice.
NoDuplicates(arr) ==
    \A i, j \in 1..Len(arr) : arr[i] = arr[j] => i = j

\* C36: from an empty ledger, after any sequence of setSession, mark, unmark
\* and reset, no record's sessions list holds a session id twice and no
\* session's reviewedHashes holds a fingerprint twice.
C36_NoDuplicates ==
    /\ \A h \in DOMAIN data.reviewedHunks : NoDuplicates(data.reviewedHunks[h].sessions)
    /\ \A s \in DOMAIN data.sessions : NoDuplicates(data.sessions[s].reviewedHashes)

\* C36 witness: a mark, with a session active, of a fingerprint that has
\* been marked before, the session in its record and it in the session's list.
C36_Witness ==
    /\ lastOp.op = "mark"
    /\ currentSessionId # Null
    /\ Has(data.reviewedHunks, lastOp.hash)
    /\ data.reviewedHunks[lastOp.hash].reviewCount >= 2
    /\ Includes(data.reviewedHunks[lastOp.hash].sessions, currentSessionId)
    /\ Has(data.sessions, currentSessionId)
    /\ Includes(data.sessions[currentSessionId].reviewedHashes, lastOp.hash)

\* C37: unmarkHunk of a fingerprint that has no record changes nothing: the
\* ledger in memory (records, sessions, counter) and the file are what they
\* were before the call, so no save was performed, and the call succeeds.
C37_UnmarkAbsentIsNoOp ==
    [][(lastOp'.op = "unmark" /\ ~Has(data.reviewedHunks, lastOp'.hash)) =>
          /\ data' = data
          /\ file' = file
          /\ lastOp'.out = "ok"]_vars

\* C37 witness: an unmark has returned and the file is not the snapshot of
\* the ledger in memory (a session was added since the last save): it found
\* no record and did not save.
C37_Witness ==
    /\ lastOp.op = "unmark"
    /\ lastOp.out = "ok"
    /\ data.sessions # EmptyObject
    /\ Total(data) > 0
    /\ file # savedFile(data)

\* C38: for a view of n >= 1 hunks, after any sequence of up/down, Space and
\* u keys, 0 <= currentHunkIndex <= n - 1.
C38_CursorInRange ==
    (alive /\ Len(allHunks) >= 1) =>
        /\ 0 <= currentHunkIndex
        /\ currentHunkIndex <= Len(allHunks) - 1

\* C38 witness: after Space and u keys, a down key has brought the cursor
\* to the last of three hunks.
C38_Witness ==
    /\ alive
    /\ lastOp.op = "down"
    /\ keyCount >= 2
    /\ Len(allHunks) = 3
    /\ currentHunkIndex = Len(allHunks) - 1
    /\ \E i \in 1..Len(allHunks) : allHunks[i].reviewed # tuiStart.hunks[i].reviewed

====
